---- MODULE Spec2Model ----
(***************************************************************************)
(* XML-RPC client of supervisord (xmlrpcclient/xmlrpc-client.go).          *)
(*                                                                         *)
(* One client, one call at a time.  A call is followed statement by        *)
(* statement through the public operation, post() and the decoding stage;  *)
(* the server, the network and the clock are the environment.              *)
(*                                                                         *)
(* The callbacks of ReloadConfig are those of the source.  The processor   *)
(* that fires them (XmlProcessorManager) follows section 4.4 of the design *)
(* document: exact-path dispatch, a container callback on entry and on     *)
(* exit, a leaf callback once per terminal element.                        *)
(***************************************************************************)
EXTENDS Integers, Sequences, FiniteSets, TLC

\* ------------------------------------------------------------------ bounds
\* Largest number of sibling groups in a reloadConfig reply document.
MaxGroups == 3
\* Largest number of leaf values in one group.
MaxLeaves == 2
\* Most elements inside the wrapper of a document of arbitrary shape.
MaxInner == 5

\* ------------------------------------------------------- inputs (bounded)
\* Kinds of target address: the scheme url.Parse finds, "other" for an
\* address that parses with any other scheme (ftp://h, or no scheme at all),
\* "invalid" for an address url.Parse rejects.
Urls == {"http", "https", "unix", "other", "invalid"}
Users == {"", "admin"}
Passwords == {"", "secret"}
\* Timeouts in abstract ticks; 0 is "no timeout configured".
Timeouts == {0, 1}
\* Verbs handed to ChangeProcessState / ChangeAllProcessState.
Changes == {"start", "stop", "restart", ""}
\* Status codes the server may answer with.
Statuses == {200, 302, 404, 503}

\* Text of the k-th leaf of a document, in document order.
LeafTexts == <<"a", "b", "c", "d", "e", "f", "g", "h", "i", "j", "k", "l">>

\* ------------------------------------------------------------- documents
SeqsUpTo(S, n) == UNION {[1..k -> S] : k \in 0..n}

\* The shapes of a reply: the number of leaves of each sibling group.
Shapes == SeqsUpTo(0..MaxLeaves, MaxGroups)

RECURSIVE BuildGroups(_, _)
\* The groups of shape `sizes`, the leaves numbered from `first` on.
BuildGroups(sizes, first) ==
    IF sizes = <<>> THEN <<>>
    ELSE <<[k \in 1..Head(sizes) |-> LeafTexts[first + k - 1]]>>
         \o BuildGroups(Tail(sizes), first + Head(sizes))

\* A document: a sequence of sibling groups, each a sequence of leaf texts.
Docs == {BuildGroups(s, 1) : s \in Shapes}

RECURSIVE Flatten(_)
Flatten(groups) ==
    IF groups = <<>> THEN <<>> ELSE Head(groups) \o Flatten(Tail(groups))

\* Number of leaf values of a document.
LeafCount(groups) == Len(Flatten(groups))

\* Structural events of the stream.
Enter(n) == [k |-> "enter", name |-> n, text |-> ""]
Exit(n) == [k |-> "exit", name |-> n, text |-> ""]
Leaf(n, t) == [k |-> "leaf", name |-> n, text |-> t]

\* The elements around the groups, root first.
Wrapper == <<"methodResponse", "params", "param", "value", "array">>

\* Path of a group container and of a leaf value, as ReloadConfig registers them.
PathData == Wrapper \o <<"data">>
PathValue == PathData \o <<"value">>

GroupTokens(g) ==
    <<Enter("data")>> \o [k \in 1..Len(g) |-> Leaf("value", g[k])] \o <<Exit("data")>>

RECURSIVE GroupsTokens(_)
GroupsTokens(groups) ==
    IF groups = <<>> THEN <<>>
    ELSE GroupTokens(Head(groups)) \o GroupsTokens(Tail(groups))

\* The event stream of a document: the wrapper elements opened, the groups
\* as sibling containers, the wrapper elements closed.
Tokens(groups) ==
    [k \in 1..Len(Wrapper) |-> Enter(Wrapper[k])]
    \o GroupsTokens(groups)
    \o [k \in 1..Len(Wrapper) |-> Exit(Wrapper[Len(Wrapper) + 1 - k])]

\* ------------------------------------------------------------ operations
NoChange == "-"
Ops ==
    {[name |-> n, change |-> NoChange] :
        n \in {"GetVersion", "GetAllProcessInfo", "Shutdown", "ReloadConfig",
               "SignalProcess", "SignalAll"}}
    \cup {[name |-> n, change |-> c] :
            n \in {"ChangeProcessState", "ChangeAllProcessState"}, c \in Changes}

NoOp == [name |-> "none", change |-> NoChange]

\* A verb check that rejects only the missing verb.
ValidChange_Mut(change) == change # ""

\* The precondition on the verb of a process-state change.
ValidChange(change) == change = "start" \/ change = "stop"

\* Does the operation check its verb before anything else?
Validates(o) == o.name \in {"ChangeProcessState", "ChangeAllProcessState"}

\* The method name the operation hands to post.
MethodName(o) ==
    CASE o.name = "GetVersion" -> "supervisor.getVersion"
      [] o.name = "GetAllProcessInfo" -> "supervisor.getAllProcessInfo"
      [] o.name = "ChangeProcessState" -> "supervisor." \o o.change \o "Process"
      [] o.name = "ChangeAllProcessState" -> "supervisor." \o o.change \o "AllProcesses"
      [] o.name = "Shutdown" -> "supervisor.shutdown"
      [] o.name = "ReloadConfig" -> "supervisor.reloadConfig"
      [] o.name = "SignalProcess" -> "supervisor.signalProcess"
      [] o.name = "SignalAll" -> "supervisor.signalProcess"

\* A credentials test that looks at the username alone.
WantsAuth_Mut(u, p) == Len(u) > 0

\* req.SetBasicAuth is called iff both credentials are non-empty.
WantsAuth(u, p) == Len(u) > 0 /\ Len(p) > 0

\* A status check that forgets the upper end of the success class.
StatusOK_Mut(code) == code >= 200

\* resp.StatusCode/100 == 2
StatusOK(code) == code \div 100 = 2

\* -------------------------------------------------- the reload callbacks
\* State of the closures of ReloadConfig: the index i, the flag has_value
\* and the reply being filled.
EmptyReply == [AddedGroup |-> <<>>, ChangedGroup |-> <<>>, RemovedGroup |-> <<>>]

\* A container callback that advances the index at every pulse.
NonLeafProcessor_Mut(st) == [st EXCEPT !.i = st.i + 1]

\* The callback registered for the container path (AddNonLeafProcessor).
NonLeafProcessor(st) ==
    IF st.has_value
    THEN [st EXCEPT !.has_value = FALSE]
    ELSE [st EXCEPT !.i = st.i + 1]

\* A switch with a default case that keeps the value.
AppendByIndex_Mut(r, j, value) ==
    CASE j = 0 -> [r EXCEPT !.AddedGroup = Append(r.AddedGroup, value)]
      [] j = 1 -> [r EXCEPT !.ChangedGroup = Append(r.ChangedGroup, value)]
      [] OTHER -> [r EXCEPT !.RemovedGroup = Append(r.RemovedGroup, value)]

\* The switch of the leaf callback: the accumulator an index selects.
AppendByIndex(r, j, value) ==
    CASE j = 0 -> [r EXCEPT !.AddedGroup = Append(r.AddedGroup, value)]
      [] j = 1 -> [r EXCEPT !.ChangedGroup = Append(r.ChangedGroup, value)]
      [] j = 2 -> [r EXCEPT !.RemovedGroup = Append(r.RemovedGroup, value)]
      [] OTHER -> r

\* The callback registered for the leaf path (AddLeafProcessor).
LeafProcessor(st, value) ==
    [has_value |-> TRUE,
     i |-> st.i + 1,
     reply |-> AppendByIndex(st.reply, st.i + 1, value)]

\* The registration table of one ReloadConfig call.
NonLeafPaths == {PathData}
LeafPaths == {PathValue}

\* p is a prefix of q.
IsPrefix(p, q) == Len(p) <= Len(q) /\ SubSeq(q, 1, Len(p)) = p

\* A processor that matches a registered leaf path as a prefix.
Callbacks_Mut(path, tok) ==
    CASE tok.k = "enter" ->
           IF Append(path, tok.name) \in NonLeafPaths
           THEN <<[cb |-> "nonleaf", text |-> ""]>> ELSE <<>>
      [] tok.k = "exit" ->
           IF path \in NonLeafPaths
           THEN <<[cb |-> "nonleaf", text |-> ""]>> ELSE <<>>
      [] tok.k = "leaf" ->
           IF \E q \in LeafPaths : IsPrefix(q, Append(path, tok.name))
           THEN <<[cb |-> "leaf", text |-> tok.text]>> ELSE <<>>

\* The callbacks the processor fires for one event of the stream, met with
\* the path stack `path`: the callback whose registered path equals the full
\* path of the element; a container fires on its entry and on its exit, a
\* terminal element once, with its text.
Callbacks(path, tok) ==
    CASE tok.k = "enter" ->
           IF Append(path, tok.name) \in NonLeafPaths
           THEN <<[cb |-> "nonleaf", text |-> ""]>> ELSE <<>>
      [] tok.k = "exit" ->
           IF path \in NonLeafPaths
           THEN <<[cb |-> "nonleaf", text |-> ""]>> ELSE <<>>
      [] tok.k = "leaf" ->
           IF Append(path, tok.name) \in LeafPaths
           THEN <<[cb |-> "leaf", text |-> tok.text]>> ELSE <<>>

\* A fired callback runs on the closure state.
RunCallback(st, f) ==
    IF f.cb = "leaf" THEN LeafProcessor(st, f.text) ELSE NonLeafProcessor(st)

\* One event of the stream dispatched by the processor.
Dispatch(st, path, tok) ==
    IF Callbacks(path, tok) = <<>> THEN st ELSE RunCallback(st, Callbacks(path, tok)[1])

\* The path stack after an event.
NextPath(path, tok) ==
    CASE tok.k = "enter" -> Append(path, tok.name)
      [] tok.k = "exit" -> SubSeq(path, 1, Len(path) - 1)
      [] tok.k = "leaf" -> path

\* ------------------------------------------------------------------ state
VARIABLES
    \* XmlRPCClient (lines 17-22)
    serverurl, user, password, timeout,
    \* the call: position in the code, operation, method name handed to
    \* post, the named result err, and how the call ended
    pc, op, method, err, outcome,
    \* transport activity of the call: requests encoded (line 59), dials
    \* (lines 91, 93), requests submitted (lines 82, 116)
    nEncode, nDial, nSend,
    \* the values of the configuration fields the call has read so far, and
    \* the deadline set on the socket (line 102; 0: none)
    seen, deadline,
    \* post: credentials attached (lines 72, 113), request context (line 76),
    \* socket (line 88), resp (line 64), error result, what the caller got
    hasAuth, ctx, conn, resp, perr, ret,
    \* the response stream: resp.Body, its events, how many the decoding
    \* stage has read, the document the server sent, why a read failed
    body, tokens, pos, doc, readFail,
    \* has the running timer of the call expired (lines 76, 91, 102)?
    elapsed,
    \* ReloadConfig: i, has_value, reply (lines 220-224); the path stack of
    \* the processor, and the callbacks it has fired, in order
    i, has_value, reply, curPath, fired,
    \* calls running concurrently on the one client, each with its locals
    \* (lines 212-224), and the storage that holds i, has_value, reply
    calls, cells

config == <<serverurl, user, password, timeout>>
call == <<op, method, err, outcome>>
activity == <<nEncode, nDial, nSend>>
reads == <<seen, deadline>>
postv == <<hasAuth, ctx, conn, resp, perr, ret>>
stream == <<body, tokens, pos, doc, readFail>>
reload == <<i, has_value, reply, curPath, fired>>
conc == <<calls, cells>>
single == <<pc, call, activity, reads, postv, stream, elapsed, reload>>
vars == <<config, single, conc>>

\* No field of the configuration read yet.
NoReads == [user |-> {}, password |-> {}, timeout |-> {}]

NilResp == [isNil |-> TRUE, StatusCode |-> 0]
Response(code) == [isNil |-> FALSE, StatusCode |-> code]

\* A call has not started: every per-call variable at its zero value.
Fresh ==
    /\ op = NoOp /\ method = "" /\ err = "nil" /\ outcome = "none"
    /\ nEncode = 0 /\ nDial = 0 /\ nSend = 0
    /\ seen = NoReads /\ deadline = 0
    /\ hasAuth = FALSE /\ ctx = "none" /\ conn = "none"
    /\ resp = NilResp /\ perr = "nil" /\ ret = "none"
    /\ body = "none" /\ tokens = <<>> /\ pos = 0 /\ doc = <<>> /\ readFail = "none"
    /\ elapsed = FALSE
    /\ i = 0 /\ has_value = FALSE /\ reply = EmptyReply /\ curPath = <<>>
    /\ fired = <<>>

\* The goroutines that call the client concurrently.
Calls == {1, 2}

\* A concurrent call that has not started, and its storage.
IdleCall ==
    [pc |-> "idle", op |-> NoOp, method |-> "", doc |-> <<>>, tokens |-> <<>>, pos |-> 0,
     curPath |-> <<>>, err |-> "nil", result |-> EmptyReply]
ZeroCell == [i |-> 0, has_value |-> FALSE, reply |-> EmptyReply]

NoCalls ==
    /\ calls = [c \in Calls |-> IdleCall]
    /\ cells = [c \in Calls |-> ZeroCell]

\* NewXmlRPCClient(serverurl): the other fields at their zero values.
Init ==
    /\ serverurl \in Urls
    /\ user = "" /\ password = "" /\ timeout = 0
    /\ pc = "idle"
    /\ Fresh
    /\ NoCalls

\* ------------------------------------------------- helpers of the actions
\* Documents the server may answer an operation with.
ReplyDocs(o) == IF o.name = "ReloadConfig" THEN Docs ELSE {<<>>}

\* The error a failed transport step returns: a timeout once the timer has
\* expired, another transport failure otherwise.
TransportErr(expired) == IF expired THEN "timeout" ELSE "transport"

\* defer cancel(): registered only when a context was made.
DeferredCancel(c) == IF c = "active" THEN "cancelled" ELSE c

\* post without its deferred conn.Close().
DeferredConnClose_Mut(c) == c

\* defer conn.Close(): registered as soon as the dial has succeeded.
DeferredConnClose(c) == IF c = "open" THEN "closed" ELSE c

\* resp.Body.Close()
BodyClose(b) == IF b = "open" THEN "closed" ELSE b

\* Can the response stream still deliver bytes that the client has not yet
\* buffered?  Not once its socket is closed, its context is cancelled or its
\* deadline has passed.
StreamLive == conn # "closed" /\ ctx # "cancelled" /\ ~elapsed

\* Why a read of unbuffered bytes fails on a stream that is not live.
DeadReason ==
    IF elapsed THEN "timeout" ELSE IF conn = "closed" THEN "closed" ELSE "cancelled"

\* A timer of the call is running: the request context (HTTP), the dial
\* timeout or the connection deadline (unix socket).
TimerActive ==
    \/ ctx = "active"
    \/ pc = "unix_dial" /\ timeout > 0
    \/ conn = "open" /\ deadline > 0

\* ------------------------------------------------------------ the setters
SetUser(u) ==
    /\ pc = "idle"
    /\ user' = u
    /\ UNCHANGED <<serverurl, password, timeout, pc, call, activity, reads, postv, stream,
                   elapsed, reload>>
    /\ UNCHANGED conc

SetPassword(p) ==
    /\ pc = "idle"
    /\ password' = p
    /\ UNCHANGED <<serverurl, user, timeout, pc, call, activity, reads, postv, stream,
                   elapsed, reload>>
    /\ UNCHANGED conc

SetTimeout(t) ==
    /\ pc = "idle"
    /\ timeout' = t
    /\ UNCHANGED <<serverurl, user, password, pc, call, activity, reads, postv, stream,
                   elapsed, reload>>
    /\ UNCHANGED conc

\* --------------------------------------------------- a public operation
\* Entry of a public operation: the verb check of the two state-change
\* operations, then the method name is built and post is called.
OpBegin(o) ==
    /\ pc = "idle"
    /\ op' = o
    /\ IF Validates(o) /\ ~ValidChange(o.change)
       THEN /\ err' = "validation"
            /\ outcome' = "error"
            /\ pc' = "done"
            /\ UNCHANGED method
       ELSE /\ method' = MethodName(o)
            /\ pc' = "post"
            /\ UNCHANGED <<err, outcome>>
    /\ UNCHANGED <<config, activity, reads, postv, stream, elapsed, reload>>
    /\ UNCHANGED conc

\* The configuration fields read by the test of lines 71 and 112:
\* len(r.user) > 0 && len(r.password) > 0 reads the password only after a
\* non-empty username.
SeeAuthTest(sn) ==
    [sn EXCEPT !.user = @ \cup {user},
               !.password = IF Len(user) > 0 THEN @ \cup {password} ELSE @]

\* The fields read by req.SetBasicAuth(r.user, r.password).
SeeAuth(sn) ==
    [sn EXCEPT !.user = @ \cup {user}, !.password = @ \cup {password}]

\* r.timeout read.
SeeTimeout(sn) == [sn EXCEPT !.timeout = @ \cup {timeout}]

\* post: the request is encoded, the address parsed, the transport chosen;
\* on HTTP(S) the request is built and the credentials are tested.
PostBegin ==
    /\ pc = "post"
    /\ nEncode' = nEncode + 1
    /\ CASE serverurl = "invalid" ->
              /\ perr' = "transport"
              /\ pc' = "post_ret"
              /\ UNCHANGED seen
         [] serverurl \in {"http", "https"} ->
              /\ seen' = SeeAuthTest(seen)
              /\ pc' = IF WantsAuth(user, password) THEN "http_auth" ELSE "http_ctx"
              /\ UNCHANGED perr
         [] serverurl = "unix" ->
              /\ pc' = "unix_dial"
              /\ UNCHANGED <<seen, perr>>
         [] OTHER ->
              /\ pc' = "post_check"
              /\ UNCHANGED <<seen, perr>>
    /\ UNCHANGED <<config, call, nDial, nSend, deadline, hasAuth, ctx, conn, resp, ret,
                   stream, elapsed, reload>>
    /\ UNCHANGED conc

\* req.SetBasicAuth(r.user, r.password), on either transport
SetBasicAuth ==
    /\ pc \in {"http_auth", "unix_auth"}
    /\ hasAuth' = TRUE
    /\ seen' = SeeAuth(seen)
    /\ pc' = IF pc = "http_auth" THEN "http_ctx" ELSE "unix_write"
    /\ UNCHANGED <<config, call, activity, deadline, ctx, conn, resp, perr, ret, stream,
                   elapsed, reload>>
    /\ UNCHANGED conc

\* The request gets a context with the timeout, when one is configured, and
\* its content type.
HttpContext ==
    /\ pc = "http_ctx"
    /\ seen' = SeeTimeout(seen)
    /\ ctx' = IF timeout > 0 THEN "active" ELSE "none"
    /\ pc' = "http_do"
    /\ UNCHANGED <<config, call, activity, deadline, hasAuth, conn, resp, perr, ret,
                   stream, elapsed, reload>>
    /\ UNCHANGED conc

\* A response arrives: its status, its body open, the document it carries.
Receive(code, d) ==
    /\ resp' = Response(code)
    /\ body' = "open"
    /\ doc' = d
    /\ tokens' = Tokens(d)
    /\ pc' = "post_check"
    /\ UNCHANGED <<perr, pos, readFail>>

\* A failed step that is tried again instead of returning.
Fail_Mut(e) ==
    /\ perr' = e
    /\ pc' = pc
    /\ UNCHANGED <<resp, stream>>

\* A step of post fails: post returns (nil, err) at once.
Fail(e) ==
    /\ perr' = e
    /\ pc' = "post_ret"
    /\ UNCHANGED <<resp, stream>>

\* http.DefaultClient.Do(req)
HttpDo ==
    /\ pc = "http_do"
    /\ nSend' = nSend + 1
    /\ \/ Fail(TransportErr(elapsed))
       \/ /\ ~elapsed
          /\ \E code \in Statuses, d \in ReplyDocs(op) : Receive(code, d)
    /\ UNCHANGED <<config, call, nEncode, nDial, reads, hasAuth, ctx, conn, ret, elapsed,
                   reload>>
    /\ UNCHANGED conc

\* net.DialTimeout when a timeout is configured, net.Dial otherwise
UnixDial ==
    /\ pc = "unix_dial"
    /\ nDial' = nDial + 1
    /\ seen' = SeeTimeout(seen)
    /\ \/ Fail(TransportErr(elapsed /\ timeout > 0)) /\ UNCHANGED <<conn, elapsed>>
       \/ /\ ~(elapsed /\ timeout > 0)
          /\ conn' = "open"
          /\ elapsed' = FALSE
          /\ pc' = "unix_deadline"
          /\ UNCHANGED <<perr, resp, stream>>
    /\ UNCHANGED <<config, call, nEncode, nSend, deadline, hasAuth, ctx, ret, reload>>
    /\ UNCHANGED conc

\* conn.SetDeadline, when a timeout is configured
UnixSetDeadline ==
    /\ pc = "unix_deadline"
    /\ seen' = SeeTimeout(seen)
    /\ \/ timeout > 0 /\ Fail("transport") /\ UNCHANGED deadline
       \/ /\ deadline' = timeout
          /\ pc' = "unix_request"
          /\ UNCHANGED <<perr, resp, stream>>
    /\ UNCHANGED <<config, call, activity, hasAuth, ctx, conn, ret, elapsed, reload>>
    /\ UNCHANGED conc

\* The request for the socket is built and the credentials are tested.
UnixRequest ==
    /\ pc = "unix_request"
    /\ seen' = SeeAuthTest(seen)
    /\ pc' = IF WantsAuth(user, password) THEN "unix_auth" ELSE "unix_write"
    /\ UNCHANGED <<config, call, activity, deadline, postv, stream, elapsed, reload>>
    /\ UNCHANGED conc

\* req.Write(conn)
UnixWrite ==
    /\ pc = "unix_write"
    /\ nSend' = nSend + 1
    /\ \/ Fail(TransportErr(elapsed))
       \/ /\ ~elapsed
          /\ pc' = "unix_read"
          /\ UNCHANGED <<perr, resp, stream>>
    /\ UNCHANGED <<config, call, nEncode, nDial, reads, hasAuth, ctx, conn, ret, elapsed,
                   reload>>
    /\ UNCHANGED conc

\* http.ReadResponse off the socket
UnixRead ==
    /\ pc = "unix_read"
    /\ \/ Fail(TransportErr(elapsed))
       \/ /\ ~elapsed
          /\ \E code \in Statuses, d \in ReplyDocs(op) : Receive(code, d)
    /\ UNCHANGED <<config, call, activity, reads, hasAuth, ctx, conn, ret, elapsed, reload>>
    /\ UNCHANGED conc

\* The status check that ends post.  With a scheme that is none of http,
\* https and unix no branch has set resp: reading resp.StatusCode through the
\* nil pointer panics.
PostCheck ==
    /\ pc = "post_check"
    /\ IF resp.isNil
       THEN /\ pc' = "crashed"
            /\ outcome' = "panic"
            /\ UNCHANGED <<perr, body>>
       ELSE IF ~StatusOK(resp.StatusCode)
       THEN /\ body' = BodyClose(body)
            /\ perr' = "protocol"
            /\ pc' = "post_ret"
            /\ UNCHANGED outcome
       ELSE /\ pc' = "post_ret"
            /\ UNCHANGED <<perr, body, outcome>>
    /\ UNCHANGED <<config, op, method, err, activity, reads, hasAuth, ctx, conn, resp, ret,
                   tokens, pos, doc, readFail, elapsed, reload>>
    /\ UNCHANGED conc

\* post returns: its deferred calls run, the caller gets (resp, nil) or (nil, err).
PostReturn ==
    /\ pc = "post_ret"
    /\ ctx' = DeferredCancel(ctx)
    /\ conn' = DeferredConnClose(conn)
    /\ ret' = IF perr = "nil" THEN "resp" ELSE "err"
    /\ pc' = "op_after_post"
    /\ UNCHANGED <<config, call, activity, reads, hasAuth, resp, perr, stream, elapsed, reload>>
    /\ UNCHANGED conc

\* The operation looks at what post returned.
OpAfterPost ==
    /\ pc = "op_after_post"
    /\ IF ret = "err"
       THEN /\ err' = perr
            /\ outcome' = "error"
            /\ pc' = "done"
            /\ UNCHANGED reload
       ELSE IF op.name = "ReloadConfig"
       THEN /\ i' = -1
            /\ has_value' = FALSE
            /\ reply' = EmptyReply
            /\ curPath' = <<>>
            /\ fired' = <<>>
            /\ pc' = "process_xml"
            /\ UNCHANGED <<err, outcome>>
       ELSE /\ pc' = "decode"
            /\ UNCHANGED <<err, outcome, reload>>
    /\ UNCHANGED <<config, op, method, activity, reads, postv, stream, elapsed>>
    /\ UNCHANGED conc

\* xml.DecodeClientResponse(resp.Body, &reply): the generic decoder reads the
\* whole body and decodes it.  It fails when the document is malformed, and
\* when a read fails: bytes not yet buffered cannot be read off a stream that
\* is no longer live.
Decode ==
    /\ pc = "decode"
    /\ \/ /\ pos' = Len(tokens)
          /\ err' = "nil"
          /\ UNCHANGED readFail
       \/ /\ readFail' = "malformed"
          /\ err' = "decode"
          /\ UNCHANGED pos
       \/ /\ ~StreamLive
          /\ readFail' = DeadReason
          /\ err' = "decode"
          /\ UNCHANGED pos
    /\ pc' = "op_ret"
    /\ UNCHANGED <<config, op, method, outcome, activity, reads, postv, body, tokens, doc,
                   elapsed, reload>>
    /\ UNCHANGED conc

\* xmlProcMgr.ProcessXml(resp.Body), one event of the stream per step.  The
\* pass ends at the end of the document and at the first error of the
\* stream (a malformed or truncated document, a failed read); ReloadConfig
\* takes no result from it.
ProcessXml ==
    /\ pc = "process_xml"
    /\ \/ /\ pos < Len(tokens)
          /\ LET tok == tokens[pos + 1]
                 st == Dispatch([i |-> i, has_value |-> has_value, reply |-> reply],
                                curPath, tok)
             IN /\ i' = st.i
                /\ has_value' = st.has_value
                /\ reply' = st.reply
                /\ curPath' = NextPath(curPath, tok)
                /\ fired' = fired \o Callbacks(curPath, tok)
          /\ pos' = pos + 1
          /\ UNCHANGED <<pc, readFail>>
       \/ /\ pos < Len(tokens)
          /\ readFail' = "malformed"
          /\ pc' = "op_ret"
          /\ UNCHANGED <<pos, reload>>
       \/ /\ pos < Len(tokens)
          /\ ~StreamLive
          /\ readFail' = DeadReason
          /\ pc' = "op_ret"
          /\ UNCHANGED <<pos, reload>>
       \/ /\ pos = Len(tokens)
          /\ pc' = "op_ret"
          /\ UNCHANGED <<pos, readFail, reload>>
    /\ UNCHANGED <<config, call, activity, reads, postv, body, tokens, doc, elapsed>>
    /\ UNCHANGED conc

\* The operation returns: its deferred resp.Body.Close() runs.
OpReturn ==
    /\ pc = "op_ret"
    /\ body' = BodyClose(body)
    /\ outcome' = IF err = "nil" THEN "ok" ELSE "error"
    /\ pc' = "done"
    /\ UNCHANGED <<config, op, method, err, activity, reads, postv, tokens, pos, doc, readFail,
                   elapsed, reload>>
    /\ UNCHANGED conc

\* The caller has its result; the client is ready for the next call.
Finish ==
    /\ pc = "done"
    /\ pc' = "idle"
    /\ op' = NoOp /\ method' = "" /\ err' = "nil" /\ outcome' = "none"
    /\ nEncode' = 0 /\ nDial' = 0 /\ nSend' = 0
    /\ seen' = NoReads /\ deadline' = 0
    /\ hasAuth' = FALSE /\ ctx' = "none" /\ conn' = "none"
    /\ resp' = NilResp /\ perr' = "nil" /\ ret' = "none"
    /\ body' = "none" /\ tokens' = <<>> /\ pos' = 0 /\ doc' = <<>> /\ readFail' = "none"
    /\ elapsed' = FALSE
    /\ i' = 0 /\ has_value' = FALSE /\ reply' = EmptyReply /\ curPath' = <<>>
    /\ fired' = <<>>
    /\ UNCHANGED config
    /\ UNCHANGED conc

\* The environment: the running timer of the call expires.
Elapse ==
    /\ TimerActive
    /\ ~elapsed
    /\ pc \in {"http_do", "unix_dial", "unix_write", "unix_read", "post_check", "post_ret"}
    /\ elapsed' = TRUE
    /\ UNCHANGED <<config, pc, call, activity, reads, postv, stream, reload>>
    /\ UNCHANGED conc

Next ==
    \/ \E u \in Users : SetUser(u)
    \/ \E p \in Passwords : SetPassword(p)
    \/ \E t \in Timeouts : SetTimeout(t)
    \/ \E o \in Ops : OpBegin(o)
    \/ PostBegin
    \/ SetBasicAuth
    \/ HttpContext
    \/ HttpDo
    \/ UnixDial
    \/ UnixSetDeadline
    \/ UnixRequest
    \/ UnixWrite
    \/ UnixRead
    \/ PostCheck
    \/ PostReturn
    \/ OpAfterPost
    \/ Decode
    \/ ProcessXml
    \/ OpReturn
    \/ Finish
    \/ Elapse

Spec == Init /\ [][Next]_vars

\* ================================================================ claims
Range(f) == {f[x] : x \in DOMAIN f}

\* A ReloadConfig call has returned after a pass over the whole document.
ReloadDone ==
    pc = "done" /\ op.name = "ReloadConfig" /\ ret = "resp" /\ readFail = "none"

\* C1: given the document of the three sibling groups ["a","b"], [], ["c"],
\* ReloadConfig returns AddedGroup = ["a","b"], ChangedGroup = [] and
\* RemovedGroup = ["c"].
C1_ReloadScenario ==
    (ReloadDone /\ doc = << <<"a", "b">>, <<>>, <<"c">> >>)
        => reply = [AddedGroup |-> <<"a", "b">>,
                    ChangedGroup |-> <<>>,
                    RemovedGroup |-> <<"c">>]

\* C2: for every document of three sibling groups whose second group is
\* empty, every value of the third group is in RemovedGroup and in neither
\* AddedGroup nor ChangedGroup.
C2_EmptyMiddleGroup ==
    (ReloadDone /\ Len(doc) = 3 /\ doc[2] = <<>>)
        => \A v \in Range(doc[3]) :
              /\ v \in Range(reply.RemovedGroup)
              /\ v \notin Range(reply.AddedGroup)
              /\ v \notin Range(reply.ChangedGroup)

\* C3: once ReloadConfig has processed a document, the three accumulators
\* hold together as many elements as the document has leaf values.
C3_AccumulatorsCountLeaves ==
    ReloadDone
        => Len(reply.AddedGroup) + Len(reply.ChangedGroup) + Len(reply.RemovedGroup)
             = LeafCount(doc)

\* C4: a state change with a verb other than "start" and "stop" ends at once
\* with a validation error, and nothing is encoded, dialled or sent and no
\* connection or response stream exists at any time of the call.
C4_ValidationNoTransport ==
    (Validates(op) /\ op.change \notin {"start", "stop"})
        => /\ pc = "done" /\ outcome = "error" /\ err = "validation"
           /\ nEncode = 0 /\ nDial = 0 /\ nSend = 0
           /\ conn = "none" /\ body = "none" /\ ret = "none"

\* C4 witness: ChangeProcessState("restart", ...) has returned.
C4_Witness ==
    /\ pc = "done"
    /\ op = [name |-> "ChangeProcessState", change |-> "restart"]
    /\ err = "validation"

\* C5: when the response's status class is not 2xx, post fails with the
\* protocol failure, the response body is closed by the time post returns,
\* and the caller is handed no response.
C5_Non2xxClosedAndFailed ==
    (pc \in {"post_ret", "op_after_post", "done"}
       /\ ~resp.isNil /\ resp.StatusCode \div 100 # 2)
        => /\ perr = "protocol"
           /\ body = "closed"
           /\ (pc # "post_ret" => ret = "err")
           /\ (pc = "done" => err = "protocol" /\ outcome = "error")

\* C5 witness: post is about to return after a 404 read off the unix socket.
C5_Witness ==
    /\ pc = "post_ret"
    /\ serverurl = "unix"
    /\ resp = Response(404)
    /\ body = "closed"

\* C6: when the stream of the document fed to ReloadConfig ends with an
\* error, ReloadConfig returns a decode failure and none of the values
\* accumulated before the error.
C6_DecodeFailureNoPartial ==
    (pc = "done" /\ op.name = "ReloadConfig" /\ ret = "resp" /\ readFail = "malformed")
        => err = "decode" /\ reply = EmptyReply

\* C7: when an operation has returned, on whatever path, no response stream
\* and no socket connection it opened is still open.
C7_AllClosedOnReturn ==
    pc \in {"done", "crashed"} => body # "open" /\ conn # "open"

\* C7 witness: an operation has returned a transport failure met after the
\* unix socket was connected.
C7_Witness ==
    /\ pc = "done"
    /\ serverurl = "unix"
    /\ conn = "closed"
    /\ err \in {"transport", "timeout"}
    /\ nSend = 1

\* The failure kinds: validation, transport (a timeout is one), protocol, decode.
FailureKinds == {"validation", "transport", "timeout", "protocol", "decode"}

\* C8: whatever the target address, a call ends either with a reply and no
\* error or with an error of one of the failure kinds, and never by a crash.
C8_ReplyOrError ==
    /\ outcome \in {"none", "ok", "error"}
    /\ pc # "crashed"
    /\ pc = "done" =>
         \/ outcome = "ok" /\ err = "nil"
         \/ outcome = "error" /\ err \in FailureKinds

\* C9: after post has returned success and until the caller has read the
\* body, the body is open and its stream can still deliver every byte,
\* unless the timeout has elapsed.
C9_BodyReadableAfterPost ==
    (ret = "resp" /\ pc \in {"op_after_post", "decode", "process_xml"}
       /\ pos < Len(tokens) /\ ~elapsed)
        => body = "open" /\ StreamLive

\* C10: on the unix-socket transport the connection is not closed before the
\* decoding stage has finished with the response, and it is closed when the
\* operation has returned, whatever the outcome after a successful dial.
C10_SocketClosedAfterRead ==
    serverurl = "unix"
        => /\ (conn = "closed" /\ ret = "resp") => pc \in {"op_ret", "done"}
           /\ (pc = "done" /\ conn # "none") => conn = "closed"

\* The steps of post that wait for the server.
WaitPcs == {"http_do", "unix_dial", "unix_write", "unix_read"}

\* A call whose timer has expired while it waits leaves the wait only by
\* returning the timeout failure from post.
TimedOutWaitFails ==
    (elapsed /\ pc \in WaitPcs) => (pc' = pc \/ (pc' = "post_ret" /\ perr' = "timeout"))

\* Once post has returned the timeout failure no connection or response
\* stream of the call is open, and the operation returns that failure.
TimeoutReleases ==
    (pc \in {"op_after_post", "done"} /\ perr = "timeout")
        => /\ conn # "open" /\ body # "open"
           /\ pc = "done" => err = "timeout" /\ outcome = "error"

\* C11: with a timeout configured, when the timer expires while the call
\* waits for the server (dial, request, response), the operation returns the
\* timeout failure and its connection has been released when it returns.
C11_TimeoutFailureReleases ==
    []TimeoutReleases /\ [][TimedOutWaitFails]_vars

\* C11 witness: an operation has returned the timeout met while writing to or
\* reading from the unix socket.
C11_Witness ==
    /\ pc = "done"
    /\ serverurl = "unix"
    /\ timeout > 0 /\ elapsed /\ resp.isNil
    /\ nSend = 1
    /\ err = "timeout"
    /\ conn = "closed"

\* C13: a request that has been submitted carries basic-auth credentials iff
\* the configured username and password are both non-empty, on either
\* transport, and the credentials are the configured ones.
C13_AuthIffBothNonEmpty ==
    nSend >= 1
        => /\ hasAuth <=> (user # "" /\ password # "")
           /\ hasAuth => seen.user = {user} /\ seen.password = {password}

\* C13 witness: a request with credentials has been written to the unix socket.
C13_Witness ==
    /\ pc = "unix_read"
    /\ hasAuth
    /\ user = "admin" /\ password = "secret"

\* C14: in a call at most one request is encoded, at most one connection
\* attempt is made and at most one request is submitted, whatever fails.
C14_NoRetry ==
    nEncode <= 1 /\ nDial <= 1 /\ nSend <= 1

\* C14 witness: an operation has returned a transport failure after its one
\* dial and its one submission.
C14_Witness ==
    /\ pc = "done"
    /\ err = "transport"
    /\ nDial = 1 /\ nSend = 1

\* The operations that reach post: every one but a state change with a
\* rejected verb.
SentOps == {o \in Ops : Validates(o) => o.change \in {"start", "stop"}}

\* The method names of the client.
WireMethods ==
    {"supervisor.getVersion", "supervisor.getAllProcessInfo",
     "supervisor.startProcess", "supervisor.stopProcess",
     "supervisor.startAllProcesses", "supervisor.stopAllProcesses",
     "supervisor.shutdown", "supervisor.reloadConfig",
     "supervisor.signalProcess", "supervisor.signalAllProcesses"}

\* C20: the method name a call sends is sent by no other operation, and it
\* is one of the client's method names.
C20_MethodNameInjective ==
    method # ""
        => /\ method \in WireMethods
           /\ \A o \in SentOps : MethodName(o) = method => o = op

\* ------------------------------------------------ the flag/index machine
\* The sibling groups wholly read so far: the closing events of the
\* container elements at the registered path.
GroupsRead ==
    Cardinality({k \in 1..pos : tokens[k].k = "exit" /\ tokens[k].name = "data"})

\* C16: while ReloadConfig processes a document the index advances exactly
\* once per sibling group crossed, whatever the group holds: between two
\* groups, after k groups, the index has advanced from -1 by exactly k.
C16_IndexOncePerGroup ==
    (pc = "process_xml" /\ op.name = "ReloadConfig" /\ curPath = Wrapper)
        => i = -1 + GroupsRead

\* A step of the processing pass in which a callback fired, and that callback.
CallbackFired == pc = "process_xml" /\ Len(fired') = Len(fired) + 1
LastFired == fired'[Len(fired')]

\* The step rule of C17 as a property of one step.
StepRule ==
    /\ (pc = "op_after_post" /\ pc' = "process_xml") => (i' = -1 /\ ~has_value')
    /\ CallbackFired =>
          IF LastFired.cb = "leaf"
          THEN has_value' /\ i' = i + 1
          ELSE IF has_value
               THEN ~has_value' /\ i' = i
               ELSE ~has_value' /\ i' = i + 1
    /\ (pc = "process_xml" /\ fired' = fired) => (i' = i /\ has_value' = has_value)
    /\ pc = "process_xml" => i' >= i
    /\ has_value' => (fired' # <<>> /\ LastFired.cb = "leaf")

\* C17: the flag/index machine of ReloadConfig starts at index -1 with the
\* flag unset; a leaf callback sets the flag and advances the index by one; a
\* container pulse clears a set flag and leaves the index, or advances the
\* index by one and leaves the flag unset; so the index never decreases and
\* the flag is set only between a leaf and the next container pulse.
C17_FlagIndexStepRule == [][StepRule]_vars

\* A container pulse has just consumed the flag a leaf set.
C17_Witness ==
    /\ pc = "process_xml" /\ Len(fired) = 3
    /\ fired[2].cb = "leaf" /\ fired[3].cb = "nonleaf"
    /\ i = 1 /\ ~has_value

\* The switch on every index value, on small accumulators.
SmallReplies ==
    [AddedGroup : {<<>>, <<"a">>}, ChangedGroup : {<<>>, <<"b">>},
     RemovedGroup : {<<>>, <<"c">>}]

IndexSelectsOneAccumulator ==
    \A r \in SmallReplies : \A j \in -1..4 :
        AppendByIndex(r, j, "v") =
            [AddedGroup |-> IF j = 0 THEN Append(r.AddedGroup, "v") ELSE r.AddedGroup,
             ChangedGroup |-> IF j = 1 THEN Append(r.ChangedGroup, "v") ELSE r.ChangedGroup,
             RemovedGroup |-> IF j = 2 THEN Append(r.RemovedGroup, "v") ELSE r.RemovedGroup]

\* The frame of C18 as a property of one step: i' is the index at the
\* moment of the append.
AppendRule ==
    CallbackFired =>
        IF LastFired.cb = "leaf"
        THEN /\ reply'.AddedGroup =
                  IF i' = 0 THEN Append(reply.AddedGroup, LastFired.text) ELSE reply.AddedGroup
             /\ reply'.ChangedGroup =
                  IF i' = 1 THEN Append(reply.ChangedGroup, LastFired.text) ELSE reply.ChangedGroup
             /\ reply'.RemovedGroup =
                  IF i' = 2 THEN Append(reply.RemovedGroup, LastFired.text) ELSE reply.RemovedGroup
             /\ err' = err /\ readFail' = readFail /\ pc' = "process_xml"
        ELSE reply' = reply

\* C18: a leaf value is appended to at most one accumulator, chosen by the
\* index at the moment of the append (0 AddedGroup, 1 ChangedGroup,
\* 2 RemovedGroup); with any other index the value is dropped, the three
\* accumulators stay as they are and no error is raised; a container pulse
\* changes no accumulator.
C18_LeafToOneAccumulator == []IndexSelectsOneAccumulator /\ [][AppendRule]_vars

\* A leaf has just been dropped: the index had passed 2.
C18_Witness ==
    /\ pc = "process_xml" /\ fired # <<>> /\ fired[Len(fired)].cb = "leaf"
    /\ i = 4 /\ has_value
    /\ reply = [AddedGroup |-> <<>>, ChangedGroup |-> <<"a">>, RemovedGroup |-> <<"b">>]
    /\ doc = << <<"a", "b">>, <<"c">> >>

\* ------------------------------------- setters concurrent with a call
\* The steps of post, the only code of a call that reads the configuration.
PostPcs ==
    {"post", "http_auth", "http_ctx", "http_do", "unix_dial", "unix_deadline",
     "unix_request", "unix_auth", "unix_write", "unix_read"}

\* SetUser, SetPassword and SetTimeout called by another goroutine while post
\* runs: the setters are plain assignments and post reads the fields with no
\* lock, so each read of a field sees the value before or after the write.
ConcurrentSetUser(u) ==
    /\ pc \in PostPcs
    /\ user' = u
    /\ UNCHANGED <<serverurl, password, timeout, pc, call, activity, reads, postv, stream,
                   elapsed, reload>>
    /\ UNCHANGED conc

ConcurrentSetPassword(p) ==
    /\ pc \in PostPcs
    /\ password' = p
    /\ UNCHANGED <<serverurl, user, timeout, pc, call, activity, reads, postv, stream,
                   elapsed, reload>>
    /\ UNCHANGED conc

ConcurrentSetTimeout(t) ==
    /\ pc \in PostPcs
    /\ timeout' = t
    /\ UNCHANGED <<serverurl, user, password, pc, call, activity, reads, postv, stream,
                   elapsed, reload>>
    /\ UNCHANGED conc

NextCfg ==
    \/ Next
    \/ \E u \in Users : ConcurrentSetUser(u)
    \/ \E p \in Passwords : ConcurrentSetPassword(p)
    \/ \E t \in Timeouts : ConcurrentSetTimeout(t)

SpecCfg == Init /\ [][NextCfg]_vars

\* C19: a call reads a snapshot of the configuration: with SetTimeout, SetUser
\* or SetPassword running concurrently, every read the call makes of one
\* field yields one single value (the dial timeout and the deadline timeout
\* are the same, the credentials tested are the credentials attached).
C19_ConfigSnapshot ==
    /\ Cardinality(seen.user) <= 1
    /\ Cardinality(seen.password) <= 1
    /\ Cardinality(seen.timeout) <= 1

\* ------------------------------------- the processor on arbitrary documents
\* An element inside the wrapper: a container <data> or <value> opened, the
\* open container closed, a terminal <value> or <name>.
Symbols == {"Ed", "Ev", "X", "Lv", "Ln"}

Opens(syms, k) == Cardinality({j \in 1..k : syms[j] \in {"Ed", "Ev"}})
Closes(syms, k) == Cardinality({j \in 1..k : syms[j] = "X"})

WellNested(syms) ==
    /\ \A k \in 1..Len(syms) : Closes(syms, k) <= Opens(syms, k)
    /\ Closes(syms, Len(syms)) = Opens(syms, Len(syms))

RECURSIVE InnerTokens(_, _, _)
\* The events of a well-nested sequence from its k-th element on, `stack`
\* the containers open there; a terminal element has the text of its place.
InnerTokens(syms, k, stack) ==
    IF k > Len(syms) THEN <<>>
    ELSE CASE syms[k] = "Ed" ->
                <<Enter("data")>> \o InnerTokens(syms, k + 1, Append(stack, "data"))
           [] syms[k] = "Ev" ->
                <<Enter("value")>> \o InnerTokens(syms, k + 1, Append(stack, "value"))
           [] syms[k] = "X" ->
                <<Exit(stack[Len(stack)])>>
                \o InnerTokens(syms, k + 1, SubSeq(stack, 1, Len(stack) - 1))
           [] syms[k] = "Lv" ->
                <<Leaf("value", LeafTexts[k])>> \o InnerTokens(syms, k + 1, stack)
           [] syms[k] = "Ln" ->
                <<Leaf("name", LeafTexts[k])>> \o InnerTokens(syms, k + 1, stack)

\* The event streams of the documents of at most MaxInner elements inside
\* the wrapper.
ProcStreams ==
    {[k \in 1..Len(Wrapper) |-> Enter(Wrapper[k])]
     \o InnerTokens(syms, 1, <<>>)
     \o [k \in 1..Len(Wrapper) |-> Exit(Wrapper[Len(Wrapper) + 1 - k])]
        : syms \in {sq \in SeqsUpTo(Symbols, MaxInner) : WellNested(sq)}}

ReloadOp == [name |-> "ReloadConfig", change |-> NoChange]

\* ReloadConfig over HTTP at the call of ProcessXml, post having returned a
\* 2xx response that carries any of the documents.
ProcInit ==
    /\ serverurl = "http" /\ user = "" /\ password = "" /\ timeout \in Timeouts
    /\ pc = "process_xml"
    /\ op = ReloadOp /\ method = MethodName(ReloadOp) /\ err = "nil" /\ outcome = "none"
    /\ nEncode = 1 /\ nDial = 0 /\ nSend = 1
    /\ seen = [user |-> {""}, password |-> {}, timeout |-> {timeout}] /\ deadline = 0
    /\ hasAuth = FALSE /\ conn = "none"
    /\ ctx = IF timeout > 0 THEN "cancelled" ELSE "none"
    /\ resp = Response(200) /\ perr = "nil" /\ ret = "resp"
    /\ body = "open" /\ tokens \in ProcStreams /\ pos = 0 /\ doc = <<>>
    /\ readFail = "none" /\ elapsed = FALSE
    /\ i = -1 /\ has_value = FALSE /\ reply = EmptyReply /\ curPath = <<>>
    /\ fired = <<>>
    /\ NoCalls

NextProc ==
    \/ ProcessXml
    \/ OpReturn

SpecProc == ProcInit /\ [][NextProc]_vars

\* Nesting depth after the k-th event of a stream.
DepthAfter(toks, k) ==
    Cardinality({j \in 1..k : toks[j].k = "enter"})
    - Cardinality({j \in 1..k : toks[j].k = "exit"})

\* The opening events before the k-th event whose elements are still open
\* there, in document order.
OpenBefore(toks, k) ==
    SelectSeq([j \in 1..(k - 1) |-> j],
              LAMBDA j : /\ toks[j].k = "enter"
                         /\ \A m \in j..(k - 1) : DepthAfter(toks, m) >= DepthAfter(toks, j))

\* Full path from the root of the element the k-th event belongs to.
ElementPath(toks, k) ==
    LET anc == OpenBefore(toks, k)
        names == [n \in 1..Len(anc) |-> toks[anc[n]].name]
    IN IF toks[k].k = "exit" THEN names ELSE Append(names, toks[k].name)

\* What the claim lets the k-th event fire.
ExpectedAt(toks, k) ==
    IF toks[k].k = "leaf"
    THEN IF ElementPath(toks, k) = PathValue
         THEN <<[cb |-> "leaf", text |-> toks[k].text]>> ELSE <<>>
    ELSE IF ElementPath(toks, k) = PathData
         THEN <<[cb |-> "nonleaf", text |-> ""]>> ELSE <<>>

\* One step of the pass: the callbacks fired grow by what the event read
\* may fire, and by nothing when no event is read.
FiresExpected ==
    pc = "process_xml" =>
        fired' = IF pos' = pos + 1 THEN fired \o ExpectedAt(tokens, pos + 1) ELSE fired

\* C15: in a processing pass the container callback fires once on the entry
\* and once on the exit of each container element whose full path is the
\* registered path, the leaf callback once for each terminal element whose
\* full path is the registered path, with its text, in document order, and
\* no callback fires for an element of another path.
C15_CallbacksFireOnExactPath ==
    /\ [](pc = "process_xml" /\ pos = 0 => fired = <<>>)
    /\ [][FiresExpected]_vars

\* A whole document read in which one terminal <value> fired, between the
\* two pulses of its group, and two other terminal elements did not.
C15_Witness ==
    /\ pc = "op_ret" /\ pos = Len(tokens) /\ readFail = "none"
    /\ Len(fired) = 3 /\ fired[2].cb = "leaf"
    /\ Cardinality({k \in 1..Len(tokens) : tokens[k].k = "leaf"}) = 3

\* --------------------------------------------- concurrent calls on a client
\* Documents answered to the concurrent calls: the shorter ones, the two
\* passes being interleaved event by event.
ConcDocs == {d \in Docs : Len(d) + 1 < MaxGroups}

\* Operations called concurrently: ReloadConfig and one with a generic reply.
ConcOps == {ReloadOp, [name |-> "GetVersion", change |-> NoChange]}

\* Storage shared by every call, as package-level state would be.
Cell_Mut(c) == 1

\* Where call c keeps i, has_value and reply: variables declared in the body
\* of ReloadConfig (lines 219-224), one set per call.
Cell(c) == c

\* Call c enters a public operation and builds its own request.
CBegin(c, o) ==
    /\ calls[c].pc = "idle"
    /\ calls' = [calls EXCEPT ![c].op = o, ![c].method = MethodName(o), ![c].pc = "post"]
    /\ UNCHANGED <<config, single, cells>>

\* post of call c returns its own response, or an error.
CPost(c) ==
    /\ calls[c].pc = "post"
    /\ serverurl \in {"http", "https", "unix"}
    /\ \/ \E d \in ReplyDocs(calls[c].op) \cap ConcDocs :
             calls' = [calls EXCEPT ![c].doc = d, ![c].tokens = Tokens(d),
                                    ![c].pc = "after_post"]
       \/ calls' = [calls EXCEPT ![c].err = "transport", ![c].pc = "done"]
    /\ UNCHANGED <<config, single, cells>>

\* Call c declares reply, i and has_value and registers its callbacks in its
\* own processor, or goes on to decode a generic reply.
CAfterPost(c) ==
    /\ calls[c].pc = "after_post"
    /\ IF calls[c].op.name = "ReloadConfig"
       THEN /\ cells' = [cells EXCEPT ![Cell(c)] =
                            [i |-> -1, has_value |-> FALSE, reply |-> EmptyReply]]
            /\ calls' = [calls EXCEPT ![c].curPath = <<>>, ![c].pc = "process_xml"]
       ELSE /\ calls' = [calls EXCEPT ![c].pos = Len(calls[c].tokens), ![c].pc = "done"]
            /\ UNCHANGED cells
    /\ UNCHANGED <<config, single>>

\* ProcessXml of call c reads one event of its stream.
CProcessXml(c) ==
    /\ calls[c].pc = "process_xml"
    /\ IF calls[c].pos < Len(calls[c].tokens)
       THEN LET tok == calls[c].tokens[calls[c].pos + 1]
            IN /\ cells' = [cells EXCEPT ![Cell(c)] = Dispatch(@, calls[c].curPath, tok)]
               /\ calls' = [calls EXCEPT ![c].curPath = NextPath(@, tok),
                                         ![c].pos = @ + 1]
       ELSE /\ calls' = [calls EXCEPT ![c].pc = "op_ret"]
            /\ UNCHANGED cells
    /\ UNCHANGED <<config, single>>

\* ReloadConfig of call c returns its reply.
CReturn(c) ==
    /\ calls[c].pc = "op_ret"
    /\ calls' = [calls EXCEPT ![c].result = cells[Cell(c)].reply, ![c].pc = "done"]
    /\ UNCHANGED <<config, single, cells>>

NextConc ==
    \/ \E c \in Calls, o \in ConcOps : CBegin(c, o)
    \/ \E c \in Calls : CPost(c)
    \/ \E c \in Calls : CAfterPost(c)
    \/ \E c \in Calls : CProcessXml(c)
    \/ \E c \in Calls : CReturn(c)

SpecConc == Init /\ [][NextConc]_vars

RECURSIVE RunFrom(_, _, _)
\* A processing pass run alone: the callbacks' state after the events toks,
\* from the state st and the path stack path.
RunFrom(st, path, toks) ==
    IF toks = <<>> THEN st
    ELSE RunFrom(Dispatch(st, path, Head(toks)), NextPath(path, Head(toks)), Tail(toks))

RunAlone(toks) ==
    RunFrom([i |-> -1, has_value |-> FALSE, reply |-> EmptyReply], <<>>, toks)

\* C12: calls running concurrently on one client do not interfere: under
\* every interleaving each call has its own request and response stream, its
\* own flag, index and accumulators, which stand as a pass run alone over the
\* events it has read leaves them, and each ReloadConfig call returns the
\* reply it returns when run alone on its document.
C12_ConcurrentCallsIndependent ==
    \A c \in Calls :
        /\ calls[c].pc # "idle" => calls[c].method = MethodName(calls[c].op)
        /\ calls[c].pc \in {"after_post", "process_xml", "op_ret"}
              => calls[c].tokens = Tokens(calls[c].doc)
        /\ calls[c].pc \in {"process_xml", "op_ret"}
              => cells[c] = RunAlone(SubSeq(calls[c].tokens, 1, calls[c].pos))
        /\ (calls[c].pc = "done" /\ calls[c].op.name = "ReloadConfig" /\ calls[c].err = "nil")
              => calls[c].result = RunAlone(Tokens(calls[c].doc)).reply

\* Two ReloadConfig calls in the middle of their passes over two documents,
\* one of them past its leaves, the other past the exit of its group.
C12_Witness ==
    /\ calls[1].pc = "process_xml" /\ calls[2].pc = "process_xml"
    /\ calls[1].doc = << <<"a", "b">> >> /\ calls[2].doc = << <<"a">> >>
    /\ cells[1].has_value /\ cells[1].i = 2
    /\ ~cells[2].has_value /\ cells[2].i = 1
    /\ cells[2].reply.ChangedGroup = <<"a">>

====
